---- MODULE Spec2Model ----
(***************************************************************************)
(* A model of five parts of qri:                                           *)
(*   - the reference-resolution coordinator (actions.ResolveDatasetRef),   *)
(*     specifications Spec and FairSpec (every task and the receive loop   *)
(*     are scheduled);                                                     *)
(*   - the list_events request/reply exchange of the p2p package           *)
(*     (QriNode.RequestEventsList, handleEvents), specifications           *)
(*     SpecEvents, FairSpecEvents (with fairness) and SpecConnected (the   *)
(*     exchange among connected peers that hold events);                   *)
(*   - the operation log of logbook (Append, Sign, Verify, Merge),         *)
(*     specification SpecLog;                                              *)
(*   - the setup command (cmd SetupOptions.Run), specification SpecSetup;  *)
(*   - the initialization of a linked directory (fsi FSI.InitDataset,      *)
(*     canInitDir), specification SpecFsi.                                 *)
(* Each specification leaves the variables of the other parts at their     *)
(* initial values.                                                         *)
(***************************************************************************)
EXTENDS Integers, Sequences, FiniteSets, TLC

VARIABLES
    \* ---- actions.ResolveDatasetRef ----
    rc,          \* TRUE iff the *remote.Client argument is not nil
    remoteAddr,  \* the remoteAddr argument
    online,      \* node.Online
    ref,         \* the DatasetRef the caller's pointer `ref` points to
    refCopy,     \* the registry task's private copy (refCopy)
    pc,          \* position of the ResolveDatasetRef call
    tasks,       \* the local `tasks`
    recvd,       \* the loop counter i: results received so far
    err,         \* the named result `err` as the loop assigns it
    retLocal,    \* returned `local`
    retErr,      \* returned `err`
    regPc,       \* position of the registry goroutine
    regErr,      \* its res.Error
    p2pPc,       \* position of the peer-network goroutine
    p2pErr,      \* its local err
    \* history of the call, written once, read only by the properties
    canonErr,    \* what repo.CanonicalizeDatasetRef returned
    canonRef,    \* *ref right after repo.CanonicalizeDatasetRef
    p2pRet,      \* what node.ResolveDatasetRef returned
    p2pRetRef,   \* *ref right after node.ResolveDatasetRef
    arrivals,    \* the results received from `responses`, in arrival order
    \* ---- p2p list_events exchange ----
    callPc,      \* per call of RequestEventsList: its position
    callOut,     \* per call: what RequestEventsList returned
    wire,        \* per call: the stream SendMessage opened and the message on it
    replies,     \* per call: the messages waiting on its `replies` channel
    sentCount,   \* per call: messages handleEvents sent on the stream (history)
    query,       \* the Repo.Events(limit, offset) call of the step just taken
    handled,     \* the handleEvents run of the step just taken: message and result
    \* ---- logbook operation log ----
    log,         \* the local Log: owner, opset, signature
    logRes,      \* the log operation just made, until its caller has the result
    \* ---- cmd setup ----
    config,      \* the configuration in config.yaml at the repo path, 0 if none
    made,        \* configurations DoSetup has built so far
    run,         \* the run of the setup command just made: flags and result
    \* ---- fsi.InitDataset ----
    tree,        \* what is on disk at p.Dir and at p.Dir/p.Mkdir
    initRes      \* the InitDataset call just made, until its caller has the result

resolveVars == <<rc, remoteAddr, online, ref, refCopy, pc, tasks, recvd, err,
                 retLocal, retErr, regPc, regErr, p2pPc, p2pErr,
                 canonErr, canonRef, p2pRet, p2pRetRef, arrivals>>

eventsVars == <<callPc, callOut, wire, replies, sentCount, query, handled>>

logVars == <<log, logRes>>

setupVars == <<config, made, run>>

fsiVars == <<tree, initRes>>

vars == <<resolveVars, eventsVars, logVars, setupVars, fsiVars>>

\* what each machine leaves alone
notResolveVars == <<eventsVars, logVars, setupVars, fsiVars>>
notEventsVars == <<resolveVars, logVars, setupVars, fsiVars>>
notLogVars == <<resolveVars, eventsVars, setupVars, fsiVars>>
notSetupVars == <<resolveVars, eventsVars, logVars, fsiVars>>
notFsiVars == <<resolveVars, eventsVars, logVars, setupVars>>

----------------------------------------------------------------------------
(* repo.DatasetRef *)

Fields == {"Peername", "Name", "ProfileID", "Path"}

\* Where a field's value came from: the caller / local repo, the registry,
\* the peer network.  "" is Go's empty string.
LocalVal == "l"
RegVal == "r"
P2PVal == "p"

EmptyRef == [f \in Fields |-> ""]

\* DatasetRef.Complete
Complete(r) ==
    r.Peername # "" /\ r.ProfileID # "" /\ r.Name # "" /\ r.Path # ""

\* A collaborator given a *DatasetRef stores value v into the fields S.
WriteFields(r, S, v) == [f \in Fields |-> IF f \in S THEN v ELSE r[f]]

----------------------------------------------------------------------------
(* errors: an error is the sequence of its message parts, nil is <<>> *)

Nil == <<>>
ErrRepoNotFound == <<"repo: not found">>
ErrProfileNotFound == <<"profile: not found">>
ErrLocalOther == <<"local store failure">>
ErrRegistry == <<"registry failure">>
ErrP2P == <<"p2p failure">>
ErrIncomplete == <<"p2p network responded with incomplete reference">>
ErrNoPath == <<"node is not online and no registry is configured">>

\* fmt.Errorf("error resolving ref: %s", err)
ErrResolving(e) == <<"error resolving ref">> \o e

CanonErrs == {Nil, ErrRepoNotFound, ErrProfileNotFound, ErrLocalOther}

----------------------------------------------------------------------------
(* the conditions and assignments of ResolveDatasetRef *)

\* (mutant) the path test inverted
LocalHit_PathInverted(e, r) == e = Nil /\ r.Path = ""

\* line 26: err == nil && ref.Path != ""
LocalHit(e, r) == e = Nil /\ r.Path # ""

\* (mutant) the not-found comparison inverted
LocalAbort_Inverted(e) == e # Nil /\ (e = ErrRepoNotFound \/ e = ErrProfileNotFound)

\* line 28: err != nil && err != repo.ErrNotFound && err != profile.ErrNotFound
LocalAbort(e) == e # Nil /\ e # ErrRepoNotFound /\ e # ErrProfileNotFound

\* (mutant) the remote address is not looked at
HasRegistry_IgnoreAddr == rc

\* line 41: rc != nil && remoteAddr != ""
HasRegistry == rc /\ remoteAddr # ""

\* lines 39-59: one task per available source
TaskCount == (IF HasRegistry THEN 1 ELSE 0) + (IF online THEN 1 ELSE 0)

\* (mutant) only the path is tested
P2PResultErr_PathOnly(r, e) == IF r.Path = "" /\ e = Nil THEN ErrIncomplete ELSE e

\* lines 63-65: the peer task's result error
P2PResultErr(r, e) == IF ~Complete(r) /\ e = Nil THEN ErrIncomplete ELSE e

\* (mutant) the winner's ref is not copied
Overwrite_Keep(old, resRef) == old

\* line 80: *ref = *res.Ref
Overwrite(old, resRef) == resRef

\* (mutant) the loop gives up at the first result
Exhausted_FirstResult(n, t) == n >= 1

\* (mutant) the loop runs once more than there are tasks
Exhausted_OneMore(n, t) == n >= t + 1

\* line 75: the loop ends once i results were received
Exhausted(n, t) == n >= t

\* (mutant) the first error is kept
NextErr_KeepFirst(old, resErr) == IF old = Nil THEN resErr ELSE old

\* line 77: err = res.Error
NextErr(old, resErr) == resErr

\* line 86: the error returned when no result succeeded
FailErr(e) == ErrResolving(e)

----------------------------------------------------------------------------
(* initial states: a call about to run, on any configuration *)

\* The caller's ref: any ref that names something.
InitRefs == {r \in [Fields -> {"", LocalVal}] : r # EmptyRef}

InitResolve ==
    /\ rc \in BOOLEAN
    /\ remoteAddr \in {"", "addr"}
    /\ online \in BOOLEAN
    /\ ref \in InitRefs
    /\ refCopy = EmptyRef
    /\ pc = "start"
    /\ tasks = 0
    /\ recvd = 0
    /\ err = Nil
    /\ retLocal = FALSE
    /\ retErr = Nil
    /\ regPc = "idle"
    /\ regErr = Nil
    /\ p2pPc = "idle"
    /\ p2pErr = Nil
    /\ canonErr = Nil
    /\ canonRef = EmptyRef
    /\ p2pRet = Nil
    /\ p2pRetRef = EmptyRef
    /\ arrivals = <<>>

----------------------------------------------------------------------------
(* ResolveDatasetRef, lines 26-31: local resolution.                       *)
(* repo.CanonicalizeDatasetRef is a collaborator: it may fill any fields   *)
(* of *ref from local state and return any of its errors.                  *)
Canonicalize ==
    /\ UNCHANGED notResolveVars
    /\ pc = "start"
    /\ \E e \in CanonErrs, S \in SUBSET Fields :
         LET r == WriteFields(ref, S, LocalVal) IN
         /\ ref' = r
         /\ canonErr' = e
         /\ canonRef' = r
         /\ IF LocalHit(e, r)
               THEN pc' = "done" /\ retLocal' = TRUE /\ retErr' = Nil
               ELSE IF LocalAbort(e)
                      THEN pc' = "done" /\ retLocal' = FALSE /\ retErr' = e
                      ELSE pc' = "launch" /\ UNCHANGED <<retLocal, retErr>>
    /\ UNCHANGED <<rc, remoteAddr, online, refCopy, tasks, recvd, err,
                   regPc, regErr, p2pPc, p2pErr, p2pRet, p2pRetRef, arrivals>>

(* lines 38-72: count and start the tasks; with none, return at once. *)
Launch ==
    /\ UNCHANGED notResolveVars
    /\ pc = "launch"
    /\ tasks' = TaskCount
    /\ IF HasRegistry
          THEN refCopy' = ref /\ regPc' = "run"
          ELSE UNCHANGED <<refCopy, regPc>>
    /\ p2pPc' = IF online THEN "run" ELSE p2pPc
    /\ IF TaskCount = 0
          THEN pc' = "done" /\ retLocal' = FALSE /\ retErr' = ErrNoPath
          ELSE pc' = "recv" /\ UNCHANGED <<retLocal, retErr>>
    /\ UNCHANGED <<rc, remoteAddr, online, ref, recvd, err, regErr, p2pErr,
                   canonErr, canonRef, p2pRet, p2pRetRef, arrivals>>

(* lines 51-53: the registry goroutine calls rc.ResolveHeadRef on its copy. *)
(* The registry is a remote server: it may store into any fields and the   *)
(* call may return an error or nil.                                        *)
RegResolve ==
    /\ UNCHANGED notResolveVars
    /\ regPc = "run"
    /\ \E e \in {Nil, ErrRegistry}, S \in SUBSET Fields :
         /\ refCopy' = WriteFields(refCopy, S, RegVal)
         /\ regErr' = e
    /\ regPc' = "send"
    /\ UNCHANGED <<rc, remoteAddr, online, ref, pc, tasks, recvd, err,
                   retLocal, retErr, p2pPc, p2pErr,
                   canonErr, canonRef, p2pRet, p2pRetRef, arrivals>>

(* line 61: the peer goroutine calls node.ResolveDatasetRef on the caller's *)
(* own ref.  Its stores into *ref are not ordered with the coordinator's   *)
(* store at line 80; storing any subset of the fields covers every mix.    *)
P2PResolve ==
    /\ UNCHANGED notResolveVars
    /\ p2pPc = "run"
    /\ \E e \in {Nil, ErrP2P}, S \in SUBSET Fields :
         LET r == WriteFields(ref, S, P2PVal) IN
         /\ ref' = r
         /\ p2pErr' = e
         /\ p2pRet' = e
         /\ p2pRetRef' = r
    /\ p2pPc' = "check"
    /\ UNCHANGED <<rc, remoteAddr, online, refCopy, pc, tasks, recvd, err,
                   retLocal, retErr, regPc, regErr,
                   canonErr, canonRef, arrivals>>

(* lines 63-65: the peer goroutine reads *ref again to test Complete(). *)
P2PCheck ==
    /\ UNCHANGED notResolveVars
    /\ p2pPc = "check"
    /\ p2pErr' = P2PResultErr(ref, p2pErr)
    /\ p2pPc' = "send"
    /\ UNCHANGED <<rc, remoteAddr, online, ref, refCopy, pc, tasks, recvd, err,
                   retLocal, retErr, regPc, regErr,
                   canonErr, canonRef, p2pRet, p2pRetRef, arrivals>>

(* lines 75-88: one receive from the unbuffered channel `responses`, which *)
(* is also the sender's send, and the return when the loop ends.           *)
Recv(src, resRef, resErr) ==
    /\ pc = "recv"
    /\ arrivals' = Append(arrivals, [src |-> src, err |-> resErr, ref |-> resRef])
    /\ recvd' = recvd + 1
    /\ err' = NextErr(err, resErr)
    /\ IF resErr = Nil
          THEN /\ ref' = Overwrite(ref, resRef)
               /\ pc' = "done" /\ retLocal' = FALSE /\ retErr' = Nil
          ELSE /\ ref' = ref
               /\ IF Exhausted(recvd + 1, tasks)
                     THEN /\ pc' = "done" /\ retLocal' = FALSE
                          /\ retErr' = FailErr(NextErr(err, resErr))
                     ELSE pc' = "recv" /\ UNCHANGED <<retLocal, retErr>>

RecvRegistry ==
    /\ UNCHANGED notResolveVars
    /\ regPc = "send"
    /\ Recv("registry", refCopy, regErr)
    /\ regPc' = "done"
    /\ UNCHANGED <<rc, remoteAddr, online, refCopy, tasks, regErr, p2pPc, p2pErr,
                   canonErr, canonRef, p2pRet, p2pRetRef>>

RecvP2P ==
    /\ UNCHANGED notResolveVars
    /\ p2pPc = "send"
    /\ Recv("p2p", ref, p2pErr)
    /\ p2pPc' = "done"
    /\ UNCHANGED <<rc, remoteAddr, online, refCopy, tasks, regPc, regErr, p2pErr,
                   canonErr, canonRef, p2pRet, p2pRetRef>>

NextResolve ==
    \/ Canonicalize
    \/ Launch
    \/ RegResolve
    \/ P2PResolve
    \/ P2PCheck
    \/ RecvRegistry
    \/ RecvP2P

----------------------------------------------------------------------------
(* the list_events exchange: p2p/events.go *)

\* the hard maximum of a list request
listMax == 30

\* calls of RequestEventsList that may run at once
MaxCalls == 2
\* how far above listMax a requested limit goes
LimitOver == 1

Calls == 1 .. MaxCalls

\* EventsParams.Limit and .Offset as callers and peers supply them
LimitInputs == (-1 .. 1) \cup (listMax .. (listMax + LimitOver))
Offsets == {0, 1}

MtEvents == "list_events"

\* Message bodies: the JSON of an EventsParams, the JSON of an event list,
\* or bytes that are no JSON.
ParamsBody(l, o) == [kind |-> "params", limit |-> l, offset |-> o]
EventsBody == [kind |-> "events", limit |-> 0, offset |-> 0]
GarbageBody == [kind |-> "garbage", limit |-> 0, offset |-> 0]

Msg(t, ph, b) == [type |-> t, phase |-> ph, body |-> b]
NoMsg == Msg("", "", [kind |-> "none", limit |-> 0, offset |-> 0])

\* the stream of one exchange and the message in flight on it
Wire(d, m) == [dir |-> d, msg |-> m]
NoWire == Wire("none", NoMsg)
ClosedWire == Wire("closed", NoMsg)

NoOut == [events |-> "none", err |-> "", from |-> 0]
NoHandled == [call |-> 0, at |-> "none", msg |-> NoMsg, storeOk |-> FALSE,
              reply |-> NoMsg, delivered |-> FALSE, hangup |-> FALSE]
NoQuery == [by |-> "none", call |-> 0, target |-> "",
            asked |-> 0, limit |-> 0, offset |-> 0]

\* (mutant) the node's own id is treated like any peer's
AnswersLocally_Never(self) == FALSE

\* events.go:26  pid == n.ID
AnswersLocally(self) == self

\* (mutant) every phase is served
IsRequest_AnyPhase(ph) == TRUE

\* events.go:56-57  switch msg.Header("phase") { case "request":
IsRequest(ph) == ph = "request"

\* (mutant) an undecodable body is taken as empty parameters
DecodesParams_Always(b) == TRUE

\* events.go:59  json.Unmarshal(msg.Body, &ep) succeeds
DecodesParams(b) == b.kind = "params"

\* events.go:45  json.Unmarshal(res.Body, &events) succeeds
DecodesEvents(b) == b.kind = "events"

\* (mutant) the reply keeps the request's phase
ReplyPhase_Request == "request"

\* events.go:75  reply.WithHeaders("phase", "response")
ReplyPhase == "response"

\* (mutant) one channel serves every call
RepliesOf_Shared(c) == 1

\* events.go:38  replies := make(chan Message): a channel of the call's own
RepliesOf(c) == c

\* (mutant) a zero limit is not replaced
ClampLimit_NoZero(l) == IF l > listMax THEN listMax ELSE l

\* events.go:64-66
ClampLimit(l) == IF l = 0 \/ l > listMax THEN listMax ELSE l

\* events.go:53-83  handleEvents on message m, where the collaborators answer:
\* storeOk (Repo.Events returns no error), sendOk (ws.sendMessage returns no
\* error).  msg.UpdateJSON marshals the event list; its error is not looked
\* at (line 74) and marshalling a list of events does not fail.
\* Gives whether the store was queried and with what, the message handed to
\* ws.sendMessage (NoMsg when none), whether it went out, and hangup.
handleEvents(m, storeOk, sendOk) ==
    IF IsRequest(m.phase)
      THEN IF ~DecodesParams(m.body)
             THEN [queried |-> FALSE, limit |-> 0, offset |-> 0,
                   reply |-> NoMsg, delivered |-> FALSE, hangup |-> TRUE]
             ELSE LET lim == ClampLimit(m.body.limit) IN
                  IF ~storeOk
                    THEN [queried |-> TRUE, limit |-> lim, offset |-> m.body.offset,
                          reply |-> NoMsg, delivered |-> FALSE, hangup |-> TRUE]
                    ELSE LET reply == Msg(m.type, ReplyPhase, EventsBody) IN
                         [queried |-> TRUE, limit |-> lim, offset |-> m.body.offset,
                          reply |-> reply, delivered |-> sendOk, hangup |-> TRUE]
      ELSE [queried |-> FALSE, limit |-> 0, offset |-> 0,
            reply |-> NoMsg, delivered |-> FALSE, hangup |-> TRUE]

InitEvents ==
    /\ callPc = [c \in Calls |-> "idle"]
    /\ callOut = [c \in Calls |-> NoOut]
    /\ wire = [c \in Calls |-> NoWire]
    /\ replies = [c \in Calls |-> <<>>]
    /\ sentCount = [c \in Calls |-> 0]
    /\ query = NoQuery
    /\ handled = NoHandled

(* events.go:23-41  RequestEventsList up to the wait for the reply. *)
RequestEventsList(c) ==
    /\ UNCHANGED notEventsVars
    /\ callPc[c] = "idle"
    /\ \E l \in LimitInputs, o \in Offsets, self \in BOOLEAN :
         LET asked == IF self THEN [NoQuery EXCEPT !.call = c, !.target = "self"]
                              ELSE NoQuery
         IN
         IF AnswersLocally(self)
           THEN \* pid == n.ID: the local store answers, nothing is sent
            \E storeOk \in BOOLEAN :
              /\ query' = [asked EXCEPT !.by = "self", !.asked = l,
                                        !.limit = l, !.offset = o]
              /\ callOut' = [callOut EXCEPT ![c] =
                    IF storeOk THEN [events |-> "list", err |-> "", from |-> 0]
                               ELSE [events |-> "nil", err |-> "repo", from |-> 0]]
              /\ callPc' = [callPc EXCEPT ![c] = "returned"]
              /\ UNCHANGED wire
           ELSE
            \/ \* NewJSONBodyMessage or SendMessage fails
               \E e \in {"marshal", "send"} :
                 /\ callOut' = [callOut EXCEPT ![c] =
                       [events |-> "nil", err |-> e, from |-> 0]]
                 /\ callPc' = [callPc EXCEPT ![c] = "returned"]
                 /\ query' = asked
                 /\ UNCHANGED wire
            \/ \* the request is on its way; wait on `replies`
               /\ wire' = [wire EXCEPT ![c] =
                     Wire("toResponder", Msg(MtEvents, "request", ParamsBody(l, o)))]
               /\ callPc' = [callPc EXCEPT ![c] = "awaiting"]
               /\ query' = asked
               /\ UNCHANGED callOut
    /\ handled' = NoHandled
    /\ UNCHANGED <<replies, sentCount>>

\* What another peer may send: a request with any body, or a message of
\* another phase (response, none, one the handler does not know).
ForeignMessages ==
    {Msg(MtEvents, "request", b) :
        b \in {GarbageBody} \cup {ParamsBody(l, 0) : l \in LimitInputs}}
    \cup {Msg(MtEvents, ph, b) :
             ph \in {"response", "", "unknown"},
             b \in {GarbageBody, ParamsBody(0, 0)}}

(* Another peer opens a stream and sends a list_events message of its own  *)
(* making: any phase, any body.                                            *)
ForeignMessage(c) ==
    /\ UNCHANGED notEventsVars
    /\ callPc[c] = "idle"
    /\ \E m \in ForeignMessages :
         wire' = [wire EXCEPT ![c] = Wire("toResponder", m)]
    /\ callPc' = [callPc EXCEPT ![c] = "foreign"]
    /\ query' = NoQuery
    /\ handled' = NoHandled
    /\ UNCHANGED <<callOut, replies, sentCount>>

\* the effect of running handleEvents at one end of stream c
Handled(c, h, at, backDir, storeOk) ==
    /\ query' = IF h.queried
                      THEN [NoQuery EXCEPT !.by = "handler", !.call = c,
                                           !.asked = wire[c].msg.body.limit,
                                           !.limit = h.limit, !.offset = h.offset]
                      ELSE NoQuery
    /\ handled' = [call |-> c, at |-> at, msg |-> wire[c].msg,
                   storeOk |-> h.queried /\ storeOk,
                   reply |-> h.reply, delivered |-> h.delivered,
                   hangup |-> h.hangup]
    /\ sentCount' = [sentCount EXCEPT ![c] = IF h.reply # NoMsg THEN @ + 1 ELSE @]
    /\ wire' = [wire EXCEPT ![c] =
          IF h.reply # NoMsg /\ h.delivered THEN Wire(backDir, h.reply)
                                            ELSE ClosedWire]

(* The responder's stream handler takes the message and runs handleEvents. *)
HandleAtResponder(c) ==
    /\ UNCHANGED notEventsVars
    /\ wire[c].dir = "toResponder"
    /\ \E storeOk \in BOOLEAN, sendOk \in BOOLEAN :
         Handled(c, handleEvents(wire[c].msg, storeOk, sendOk),
                 "responder", "toRequester", storeOk)
    /\ UNCHANGED <<callPc, callOut, replies>>

(* The remote peer need not run this code: it may answer a request with   *)
(* a response whose body is no event list.                                *)
RogueReply(c) ==
    /\ UNCHANGED notEventsVars
    /\ wire[c].dir = "toResponder"
    /\ callPc[c] = "awaiting"
    /\ wire' = [wire EXCEPT ![c] =
          Wire("toRequester", Msg(wire[c].msg.type, "response", GarbageBody))]
    /\ query' = NoQuery
    /\ handled' = NoHandled
    /\ UNCHANGED <<callPc, callOut, replies, sentCount>>

(* The requester's stream handler passes the message to `replies` and runs *)
(* handleEvents on it as well.                                             *)
HandleAtRequester(c) ==
    /\ UNCHANGED notEventsVars
    /\ wire[c].dir = "toRequester"
    /\ replies' = [replies EXCEPT ![RepliesOf(c)] =
          IF callPc[c] = "foreign"
            THEN @ ELSE Append(@, [stream |-> c, msg |-> wire[c].msg])]
    /\ \E storeOk \in BOOLEAN, sendOk \in BOOLEAN :
         Handled(c, handleEvents(wire[c].msg, storeOk, sendOk),
                 "requester", "toResponder", storeOk)
    /\ UNCHANGED <<callPc, callOut>>

(* events.go:43-50  res := <-replies, decode, return. *)
ReturnReply(c) ==
    /\ UNCHANGED notEventsVars
    /\ callPc[c] = "awaiting"
    /\ replies[RepliesOf(c)] # <<>>
    /\ LET res == Head(replies[RepliesOf(c)]) IN
       callOut' = [callOut EXCEPT ![c] =
          IF DecodesEvents(res.msg.body)
            THEN [events |-> "list", err |-> "", from |-> res.stream]
            ELSE [events |-> "list", err |-> "unmarshal", from |-> res.stream]]
    /\ replies' = [replies EXCEPT ![RepliesOf(c)] = Tail(@)]
    /\ callPc' = [callPc EXCEPT ![c] = "returned"]
    /\ query' = NoQuery
    /\ handled' = NoHandled
    /\ UNCHANGED <<wire, sentCount>>

NextEvents ==
    \E c \in Calls :
        \/ RequestEventsList(c)
        \/ ForeignMessage(c)
        \/ HandleAtResponder(c)
        \/ RogueReply(c)
        \/ HandleAtRequester(c)
        \/ ReturnReply(c)

----------------------------------------------------------------------------
(* The operation log.  logbook/log/log.fbs declares Operation and Log;     *)
(* Append, Sign, Verify and Merge follow the design's contract for them.   *)

MaxOps == 3

OpIds == {"a", "b", "c"}
NoId == ""
Identities == {"owner", "other"}

\* table Operation: of its fields only prev and the operation's own
\* identifier bear on the causal order
Operation(i, p) == [id |-> i, prev |-> p]
Operations == {Operation(i, p) : i \in OpIds, p \in (OpIds \cup {NoId})} \
                  {Operation(i, i) : i \in OpIds}
NoOperation == Operation(NoId, NoId)

Identifier(op) == op.id

\* the cached head identifier
HeadId(ops) == IF ops = <<>> THEN NoId ELSE Identifier(ops[Len(ops)])

\* the deterministic hash of an operation sequence: distinct sequences have
\* distinct hashes
Hash(ops) == ops

NoSig == [signer |-> "", hash |-> <<>>]
Signature(id, ops) == [signer |-> id, hash |-> Hash(ops)]

\* table Log: opset and signature, and the identity that owns the log
Log(o, ops, sig) == [owner |-> o, opset |-> ops, signature |-> sig]
NoLog == Log("", <<>>, NoSig)

LogOk == ""
CausalConflict == "CausalConflict"
SignatureInvalid == "SignatureInvalid"
EmptyLog == "EmptyLog"
UnknownIdentity == "UnknownIdentity"

\* (mutant) any operation may be appended
PrevMatches_Any(lg, op) == TRUE

\* Append's check: op.prev is the identifier of the log's last operation
PrevMatches(lg, op) == op.prev = HeadId(lg.opset)

\* Append(log, op): the signature is left as it was and no longer matches
AppendResult(lg, op) ==
    IF PrevMatches(lg, op)
      THEN [log |-> [lg EXCEPT !.opset = Append(@, op)], err |-> LogOk]
      ELSE [log |-> lg, err |-> CausalConflict]

\* Sign(log, privateIdentity)
SignResult(lg, id) ==
    IF lg.opset = <<>>
      THEN [log |-> lg, err |-> EmptyLog]
      ELSE [log |-> [lg EXCEPT !.signature = Signature(id, lg.opset)],
            err |-> LogOk]

\* Verify(log, publicIdentity)
VerifyErr(lg, id) ==
    IF id \notin Identities THEN UnknownIdentity
    ELSE IF lg.signature = NoSig THEN SignatureInvalid
    ELSE IF lg.signature.signer # id THEN SignatureInvalid
    ELSE IF lg.signature.hash # Hash(lg.opset) THEN SignatureInvalid
    ELSE LogOk

\* (mutant) a log that carries any signature passes
Verified_SignedOnly(lg, id) == lg.signature # NoSig

Verified(lg, id) == VerifyErr(lg, id) = LogOk

Shorter(a, b) == IF Len(a) < Len(b) THEN Len(a) ELSE Len(b)

\* (mutant) no two opsets are taken to diverge
Diverge_Never(a, b) == FALSE

\* the two opsets hold different operations at a position both have
Diverge(a, b) == \E i \in 1 .. Shorter(a, b) : a[i] # b[i]

\* (mutant) a remote of the same length counts as an extension too
StrictlyLonger_OrEqual(a, b) == Len(b) >= Len(a)

\* b has more operations than a
StrictlyLonger(a, b) == Len(b) > Len(a)

\* the operations b has beyond a follow the prev chain
ContinuesChain(a, b) ==
    \A i \in (Len(a) + 1) .. Len(b) :
        b[i].prev = IF i = 1 THEN NoId ELSE Identifier(b[i - 1])

\* (mutant) the local log is kept as it is
FastForward_Keep(local, remote) == local

\* the local log adopts the remote's operations and signature
FastForward(local, remote) ==
    [local EXCEPT !.opset = remote.opset, !.signature = remote.signature]

\* Merge(localLog, remoteLog)
MergeResult(local, remote) ==
    IF ~Verified(remote, local.owner)
      THEN [log |-> local, err |-> SignatureInvalid]
    ELSE IF Diverge(local.opset, remote.opset)
      THEN [log |-> local, err |-> CausalConflict]
    ELSE IF StrictlyLonger(local.opset, remote.opset)
      THEN IF ContinuesChain(local.opset, remote.opset)
             THEN [log |-> FastForward(local, remote), err |-> LogOk]
             ELSE [log |-> local, err |-> CausalConflict]
    ELSE [log |-> local, err |-> LogOk]

\* the links of an opset that break the prev chain
BrokenLinks(ops) ==
    {i \in 1 .. Len(ops) :
        ops[i].prev # (IF i = 1 THEN NoId ELSE Identifier(ops[i - 1]))}

\* Remote logs as a peer may present them: a chain, or a sequence with one
\* broken link; unsigned, signed by the owner, signed by someone else, or
\* carrying the owner's signature over the opset less its last operation.
RemoteOpsets ==
    {ops \in UNION {[1 .. k -> Operations] : k \in 0 .. MaxOps} :
        Cardinality(BrokenLinks(ops)) <= 1}

RemoteSignatures(ops) ==
    {NoSig, Signature("owner", ops), Signature("other", ops)}
        \cup (IF ops = <<>> THEN {}
              ELSE {Signature("owner", SubSeq(ops, 1, Len(ops) - 1))})

RemoteLogs ==
    {Log("owner", ops, sig) : <<ops, sig>> \in
        UNION {{<<o, g>> : g \in RemoteSignatures(o)} : o \in RemoteOpsets}}

NoLogRes == [op |-> "none", err |-> LogOk, before |-> NoLog,
             appended |-> NoOperation, remote |-> NoLog, identity |-> ""]

IdleLog ==
    /\ log = Log("owner", <<>>, NoSig)
    /\ logRes = NoLogRes

LogAppend ==
    /\ UNCHANGED notLogVars
    /\ logRes = NoLogRes
    /\ Len(log.opset) < MaxOps
    /\ \E op \in Operations :
         LET res == AppendResult(log, op) IN
           /\ log' = res.log
           /\ logRes' = [NoLogRes EXCEPT !.op = "Append", !.err = res.err,
                                         !.before = log, !.appended = op]

Sign ==
    /\ UNCHANGED notLogVars
    /\ logRes = NoLogRes
    /\ LET res == SignResult(log, log.owner) IN
         /\ log' = res.log
         /\ logRes' = [NoLogRes EXCEPT !.op = "Sign", !.err = res.err,
                                       !.before = log, !.identity = log.owner]

Verify ==
    /\ UNCHANGED notLogVars
    /\ logRes = NoLogRes
    /\ log' = log
    /\ \E id \in Identities \cup {"nobody"} :
         logRes' = [NoLogRes EXCEPT !.op = "Verify", !.err = VerifyErr(log, id),
                                    !.before = log, !.identity = id]

Merge ==
    /\ UNCHANGED notLogVars
    /\ logRes = NoLogRes
    /\ \E remote \in RemoteLogs :
         LET res == MergeResult(log, remote) IN
           /\ log' = res.log
           /\ logRes' = [NoLogRes EXCEPT !.op = "Merge", !.err = res.err,
                                         !.before = log, !.remote = remote]

\* the caller takes the result; the log is ready for the next operation
LogReturn ==
    /\ UNCHANGED notLogVars
    /\ logRes # NoLogRes
    /\ logRes' = NoLogRes
    /\ log' = log

NextLog ==
    \/ LogReturn
    \/ LogAppend
    \/ Sign
    \/ Verify
    \/ Merge

----------------------------------------------------------------------------
(* cmd/setup.go  SetupOptions.Run *)

MaxMade == 3

ErrAlreadyInitialized == "repo already initialized"

\* os.Stat of config.yaml: nil, a not-exist error, or another error
StatResults(cfg) ==
    (IF cfg = 0 THEN {"notexist"} ELSE {"ok"}) \cup {"othererr"}

\* setup.go:211-215  QRIRepoInitialized
QRIRepoInitialized(stat) == stat # "notexist"

\* (mutant) --overwrite is not looked at the right way round
RefuseSetup_Inverted(initialized, overwrite) == initialized /\ overwrite

\* setup.go:110  QRIRepoInitialized(o.QriRepoPath) && !o.Overwrite
RefuseSetup(initialized, overwrite) == initialized /\ ~overwrite

\* How DoSetup ends: an error before lib.Setup is called (lines 136, 141,
\* 186), an error of lib.Setup other than a taken peername (199), an error
\* of f.Init (204), or success.
SetupOutcomes == {"readfile", "unmarshal", "ipfsreadfile", "setup", "init", "ok"}

\* setup.go:125-205  DoSetup: its error, whether it reached lib.Setup and
\* the configuration left in config.yaml.  lib.Setup writes the new
\* configuration; when it fails it may or may not have written it.
DoSetup(outcome, wrote, cfg, new) ==
    IF outcome \in {"readfile", "unmarshal", "ipfsreadfile"}
      THEN [err |-> outcome, reached |-> FALSE, config |-> cfg]
    ELSE IF outcome = "setup"
      THEN [err |-> outcome, reached |-> TRUE,
            config |-> IF wrote THEN new ELSE cfg]
    ELSE [err |-> IF outcome = "init" THEN outcome ELSE "",
          reached |-> TRUE, config |-> new]

\* setup.go:93-108  the --remove branch: f.Config, lib.Teardown
Teardown(outcome, removed, cfg) ==
    IF outcome = "config"
      THEN [err |-> outcome, reached |-> FALSE, config |-> cfg]
    ELSE IF outcome = "teardown"
      THEN [err |-> outcome, reached |-> TRUE,
            config |-> IF removed THEN 0 ELSE cfg]
    ELSE [err |-> "", reached |-> TRUE, config |-> 0]

NoRun == [called |-> FALSE, remove |-> FALSE, overwrite |-> FALSE,
          stat |-> "", before |-> 0, err |-> "",
          didSetup |-> FALSE, didTeardown |-> FALSE]

\* the repo path before the command runs: empty, or set up once
InitSetup ==
    /\ config \in {0, 1}
    /\ made = config
    /\ run = NoRun

IdleSetup ==
    /\ config = 0
    /\ made = 0
    /\ run = NoRun

(* setup.go:92-122  Run *)
Run ==
    /\ UNCHANGED notSetupVars
    /\ made < MaxMade
    /\ \E remove \in BOOLEAN, overwrite \in BOOLEAN,
          stat \in StatResults(config), wrote \in BOOLEAN :
         LET called == [NoRun EXCEPT !.called = TRUE, !.remove = remove,
                                     !.overwrite = overwrite, !.before = config]
         IN
         IF remove
           THEN \E outcome \in {"config", "teardown", "ok"} :
                  LET t == Teardown(outcome, wrote, config) IN
                    /\ config' = t.config
                    /\ made' = made
                    /\ run' = [called EXCEPT !.err = t.err,
                                             !.didTeardown = t.reached]
         ELSE IF RefuseSetup(QRIRepoInitialized(stat), overwrite)
           THEN /\ config' = config
                /\ made' = made
                /\ run' = [called EXCEPT !.stat = stat,
                                         !.err = ErrAlreadyInitialized]
         ELSE \E outcome \in SetupOutcomes :
                  LET d == DoSetup(outcome, wrote, config, made + 1) IN
                    /\ config' = d.config
                    /\ made' = made + 1
                    /\ run' = [called EXCEPT !.stat = stat, !.err = d.err,
                                             !.didSetup = TRUE]

NextSetup == Run

----------------------------------------------------------------------------
(* fsi.InitDataset and canInitDir *)

QriRefFilename == ".qri-ref"

\* the files canInitDir looks for, in its order (lines 118-136)
CheckedFiles == <<QriRefFilename, "meta.json", "schema.json", "body.csv", "body.json">>
Files == {CheckedFiles[i] : i \in 1 .. Len(CheckedFiles)}

\* The disk: what p.Dir is, the files in it, whether p.Dir/p.Mkdir exists
\* and the files in that.
Tree(d, fs, sub, subFs) == [dir |-> d, files |-> fs, sub |-> sub, subFiles |-> subFs]

ErrDirRequired == <<"directory is required to initialize a dataset">>
ErrStat == <<"stat: no such file or directory">>
ErrNotDir == <<"invalid path to initialize: not a directory">>
ErrMkdirExists == <<"mkdir: file exists">>
ErrMkdir == <<"mkdir: permission denied">>
ErrNameExists == <<"a dataset with the name already exists in your repo">>
ErrFormat == <<"invalid format, only csv and json accepted">>
ErrLink == <<"create link failed">>
ErrWriteMeta == <<"write meta.json failed">>
ErrReadSource == <<"read source body failed">>
ErrWriteBody == <<"write body failed">>

\* lines 119-135: the error canInitDir gives for a file it finds
CanInitErr(f) ==
    IF f = QriRefFilename
      THEN <<"working directory is already linked, .qri-ref exists">>
      ELSE <<"cannot initialize new dataset, file exists", f>>

\* lines 117-139  canInitDir, on the files of the directory
canInitDir(fs) ==
    LET found == {i \in 1 .. Len(CheckedFiles) : CheckedFiles[i] \in fs} IN
    IF found = {} THEN Nil
    ELSE CanInitErr(CheckedFiles[CHOOSE i \in found : \A j \in found : i <= j])

\* filepath.Ext(p.SourceBodyPath) without its dot
Ext(path) ==
    IF path = "body.csv" THEN "csv"
    ELSE IF path = "body.xml" THEN "xml"
    ELSE ""

\* lines 62-67: the format derived from the source body path
DeriveFormat(format, source) ==
    IF format = "" /\ source # "" /\ Ext(source) # "" THEN Ext(source) ELSE format

\* line 70
ValidFormat(format) == format = "csv" \/ format = "json"

\* os.Mkdir(targetPath): it fails when the path exists
MkdirErr(tr, failAt) ==
    IF tr.sub THEN ErrMkdirExists
    ELSE IF failAt = "mkdir" THEN ErrMkdir
    ELSE Nil

TargetFiles(tr, mkdir) == IF mkdir THEN tr.subFiles ELSE tr.files

\* a file written into the target directory
WithFile(tr, mkdir, f) ==
    IF mkdir THEN [tr EXCEPT !.subFiles = @ \cup {f}]
             ELSE [tr EXCEPT !.files = @ \cup {f}]

\* line 75: fsi.CreateLink(targetPath, alias) links the directory; the link
\* is the file canInitDir looks for at lines 118-121
CreateLink(tr, mkdir) == WithFile(tr, mkdir, QriRefFilename)

InitParams == [dirGiven : BOOLEAN, mkdir : BOOLEAN,
               format : {"", "csv", "json", "xml"},
               source : {"", "body.csv", "body", "body.xml"}]

\* where the environment makes a step of the call fail
FailPoints == {"none", "mkdir", "link", "meta", "read", "body"}

\* lines 22-115  InitDataset: its error and the disk it leaves.  nameTaken
\* says that repo.CanonicalizeDatasetRef found the name (line 56).
InitDataset(tr, p, nameTaken, failAt) ==
    LET fail(e, t) == [err |-> e, tree |-> t]
        target == IF p.mkdir THEN [tr EXCEPT !.sub = TRUE, !.subFiles = {}] ELSE tr
        format == DeriveFormat(p.format, p.source)
        linked == CreateLink(target, p.mkdir)
        withMeta == WithFile(linked, p.mkdir, "meta.json")
        withBody == WithFile(withMeta, p.mkdir,
                             IF format = "csv" THEN "body.csv" ELSE "body.json")
    IN
    IF ~p.dirGiven THEN fail(ErrDirRequired, tr)
    ELSE IF tr.dir = "missing" THEN fail(ErrStat, tr)
    ELSE IF tr.dir # "dir" THEN fail(ErrNotDir, tr)
    ELSE IF p.mkdir /\ MkdirErr(tr, failAt) # Nil THEN fail(MkdirErr(tr, failAt), tr)
    ELSE IF canInitDir(TargetFiles(target, p.mkdir)) # Nil
      THEN fail(canInitDir(TargetFiles(target, p.mkdir)), target)
    ELSE IF nameTaken THEN fail(ErrNameExists, target)
    ELSE IF ~ValidFormat(format) THEN fail(ErrFormat, target)
    ELSE IF failAt = "link" THEN fail(ErrLink, target)
    ELSE IF failAt = "meta" THEN fail(ErrWriteMeta, linked)
    ELSE IF p.source # "" /\ failAt = "read" THEN fail(ErrReadSource, withMeta)
    ELSE IF failAt = "body" THEN fail(ErrWriteBody, withMeta)
    ELSE [err |-> Nil, tree |-> withBody]

NoInitRes == [called |-> FALSE, dirGiven |-> FALSE, mkdir |-> FALSE,
              err |-> Nil, before |-> Tree("missing", {}, FALSE, {})]

\* the disk before any call: p.Dir is a directory, a file or nothing; a
\* directory may hold a schema.json and an empty p.Dir/p.Mkdir
InitTrees ==
    {Tree("file", {}, FALSE, {}), Tree("missing", {}, FALSE, {})}
    \cup {Tree("dir", fs, sub, {}) : fs \in {{}, {"schema.json"}}, sub \in BOOLEAN}

InitFsi ==
    /\ tree \in InitTrees
    /\ initRes = NoInitRes

IdleFsi ==
    /\ tree = Tree("dir", {}, FALSE, {})
    /\ initRes = NoInitRes

InitDatasetCall ==
    /\ UNCHANGED notFsiVars
    /\ initRes = NoInitRes
    /\ \E p \in InitParams, nameTaken \in BOOLEAN, failAt \in FailPoints :
         LET res == InitDataset(tree, p, nameTaken, failAt) IN
           /\ tree' = res.tree
           /\ initRes' = [called |-> TRUE, dirGiven |-> p.dirGiven,
                          mkdir |-> p.mkdir, err |-> res.err, before |-> tree]

\* the caller takes the result
InitDatasetReturn ==
    /\ UNCHANGED notFsiVars
    /\ initRes # NoInitRes
    /\ initRes' = NoInitRes
    /\ tree' = tree

NextFsi == InitDatasetCall \/ InitDatasetReturn

----------------------------------------------------------------------------
(* specifications *)

Init == InitResolve /\ InitEvents /\ IdleLog /\ IdleSetup /\ IdleFsi

Next == NextResolve

\* the resolution coordinator
Spec == Init /\ [][Next]_vars

\* Every goroutine is scheduled: the call runs on, each task's collaborator
\* returns, and a task ready to send hands its result over whenever the
\* coordinator is receiving.
FairSpec ==
    /\ Spec
    /\ WF_vars(Canonicalize) /\ WF_vars(Launch)
    /\ WF_vars(RegResolve) /\ WF_vars(P2PResolve) /\ WF_vars(P2PCheck)
    /\ WF_vars(RecvRegistry) /\ WF_vars(RecvP2P)

\* a call that has not started: the state the exchange's specification keeps
\* the coordinator in
IdleResolve ==
    /\ InitResolve
    /\ rc = FALSE /\ remoteAddr = "" /\ online = FALSE
    /\ ref = [f \in Fields |-> LocalVal]

InitEventsOnly == IdleResolve /\ InitEvents /\ IdleLog /\ IdleSetup /\ IdleFsi

\* the list_events exchange
SpecEvents == InitEventsOnly /\ [][NextEvents]_vars

\* Goroutines and streams make progress: a message on a stream is handled,
\* a reply waiting on `replies` is received.
FairSpecEvents ==
    /\ SpecEvents
    /\ \A c \in Calls :
         /\ WF_vars(HandleAtResponder(c))
         /\ WF_vars(HandleAtRequester(c))
         /\ WF_vars(ReturnReply(c))

InitLogOnly == IdleResolve /\ InitEvents /\ IdleLog /\ IdleSetup /\ IdleFsi

\* the operation log
SpecLog == InitLogOnly /\ [][NextLog]_vars

InitSetupOnly == IdleResolve /\ InitEvents /\ IdleLog /\ InitSetup /\ IdleFsi

\* the setup command, run any number of times on one repo path
SpecSetup == InitSetupOnly /\ [][NextSetup]_vars

InitFsiOnly == IdleResolve /\ InitEvents /\ IdleLog /\ IdleSetup /\ InitFsi

\* fsi.InitDataset, called any number of times on one directory
SpecFsi == InitFsiOnly /\ [][NextFsi]_vars

(* The exchange among connected peers whose stores hold events, as       *)
(* TestRequestEventsList sets it up: requests go to other peers and are    *)
(* sent, every lookup succeeds, every reply goes out.                      *)
ConnectedRequest(c) == RequestEventsList(c) /\ callPc'[c] = "awaiting"

ConnectedRespond(c) ==
    HandleAtResponder(c) /\ handled'.storeOk /\ handled'.delivered

ConnectedDeliver(c) == HandleAtRequester(c)

ConnectedReturn(c) == ReturnReply(c)

NextConnected ==
    \E c \in Calls :
        \/ ConnectedRequest(c)
        \/ ConnectedRespond(c)
        \/ ConnectedDeliver(c)
        \/ ConnectedReturn(c)

\* every stream's goroutines are scheduled
SpecConnected ==
    /\ InitEventsOnly /\ [][NextConnected]_vars
    /\ \A c \in Calls :
         /\ WF_vars(ConnectedRespond(c))
         /\ WF_vars(ConnectedDeliver(c))
         /\ WF_vars(ConnectedReturn(c))

----------------------------------------------------------------------------
(* properties of ResolveDatasetRef, checked under Spec *)

Returned == pc = "done"
AllPopulated(r) == \A f \in Fields : r[f] # ""
NoTaskLaunched == tasks = 0 /\ regPc = "idle" /\ p2pPc = "idle" /\ arrivals = <<>>
Last(q) == q[Len(q)]
RegistryGiven == rc /\ remoteAddr # ""

\* C1: when the local canonicalize step returns no error and leaves a
\* complete ref, the call has returned (local = true, no error) and neither
\* the registry task nor the peer task was launched, on every configuration.
C1_LocalHitReturnsLocal ==
    (pc # "start" /\ canonErr = Nil /\ AllPopulated(canonRef))
        => /\ Returned /\ retLocal = TRUE /\ retErr = Nil
           /\ NoTaskLaunched

C1_Witness ==
    /\ Returned /\ canonErr = Nil /\ AllPopulated(canonRef) /\ retLocal = TRUE
    /\ RegistryGiven /\ online

\* C2: the first received result with no error is the winner: at the step
\* that receives it *ref becomes that result's ref and the call returns
\* (local = false, no error); nothing is received after it and the returned
\* values never change.
C2_WinnerIsLast ==
    /\ (\E k \in 1 .. Len(arrivals) : arrivals[k].err = Nil)
          => /\ Last(arrivals).err = Nil
             /\ \A k \in 1 .. (Len(arrivals) - 1) : arrivals[k].err # Nil
             /\ Returned /\ retLocal = FALSE /\ retErr = Nil
    /\ (Returned /\ retErr = Nil /\ ~retLocal) => Last(arrivals).err = Nil

C2_ReceiveStep ==
    /\ (Len(arrivals') = Len(arrivals) + 1 /\ Last(arrivals').err = Nil)
          => ref' = Last(arrivals').ref
    /\ Returned => /\ pc' = "done" /\ arrivals' = arrivals
                   /\ retLocal' = retLocal /\ retErr' = retErr

C2_FirstSuccessWins == [](C2_WinnerIsLast) /\ [][C2_ReceiveStep]_vars

C2_Witness ==
    /\ Returned /\ retErr = Nil /\ Len(arrivals) = 1
    /\ arrivals[1].src = "registry" /\ arrivals[1].ref # canonRef
    /\ ref = arrivals[1].ref
    /\ p2pPc = "send"

\* C3: with both tasks launched, when the peer task's error arrives first
\* and the registry's no-error result second, the call returns success and
\* *ref is the registry's ref; and the call fails only when no launched task
\* is still to deliver.
C3_LaterSuccessWins ==
    /\ ( /\ Len(arrivals) = 2
         /\ arrivals[1].src = "p2p" /\ arrivals[1].err # Nil
         /\ arrivals[2].src = "registry" /\ arrivals[2].err = Nil )
          => /\ Returned /\ retLocal = FALSE /\ retErr = Nil
             /\ ref = arrivals[2].ref /\ ref = refCopy
    /\ (Returned /\ tasks > 0 /\ retErr # Nil)
          => /\ Len(arrivals) = tasks
             /\ regPc \in {"idle", "done"} /\ p2pPc \in {"idle", "done"}

C3_Witness ==
    /\ Returned /\ retErr = Nil /\ Len(arrivals) = 2
    /\ arrivals[1].src = "p2p" /\ arrivals[1].err = ErrP2P
    /\ arrivals[2].src = "registry" /\ AllPopulated(arrivals[2].ref)
    /\ ref = refCopy /\ ref # p2pRetRef

\* C4: when the local canonicalize step returns an error that is neither
\* repo.ErrNotFound nor profile.ErrNotFound, the call has returned
\* (local = false, that error) and no task was launched.
C4_LocalErrorAborts ==
    (pc # "start" /\ canonErr \notin {Nil, ErrRepoNotFound, ErrProfileNotFound})
        => /\ Returned /\ retLocal = FALSE /\ retErr = canonErr
           /\ NoTaskLaunched

C4_Witness ==
    /\ Returned /\ canonErr = ErrLocalOther /\ retErr = ErrLocalOther
    /\ RegistryGiven /\ online

NoSource == (~rc \/ remoteAddr = "") /\ ~online
NoPathOutcome ==
    /\ pc \in {"launch", "done"}
    /\ Returned => (retLocal = FALSE /\ retErr = ErrNoPath)
    /\ arrivals = <<>> /\ regPc = "idle" /\ p2pPc = "idle"

\* C5 as stated: whenever local resolution does not succeed and no remote
\* source is available, the call fails with the no-resolution-path error and
\* waits on no result.
C5_AsStated ==
    (pc # "start" /\ ~(canonErr = Nil /\ canonRef.Path # "") /\ NoSource)
        => NoPathOutcome

\* C5 (amended): when local resolution ends with a not-found error, or with
\* no error and an empty path, and no remote source is available, the call
\* fails with the no-resolution-path error and waits on no result.
C5_NoSourceNoPath ==
    ( /\ pc # "start"
      /\ \/ canonErr \in {ErrRepoNotFound, ErrProfileNotFound}
         \/ (canonErr = Nil /\ canonRef.Path = "")
      /\ NoSource )
        => NoPathOutcome

C5_Witness ==
    /\ Returned /\ retErr = ErrNoPath /\ canonErr = ErrRepoNotFound
    /\ rc /\ remoteAddr = "" /\ ~online

\* C6: when every launched task has delivered an error, the call has failed
\* with "error resolving ref" wrapping the error that arrived last, and
\* local = false.
C6_AllFailWrapsLast ==
    ( /\ tasks > 0 /\ Len(arrivals) = tasks
      /\ \A k \in 1 .. Len(arrivals) : arrivals[k].err # Nil )
        => /\ Returned /\ retLocal = FALSE
           /\ retErr = ErrResolving(Last(arrivals).err)

C6_Witness ==
    /\ Returned /\ Len(arrivals) = 2
    /\ arrivals[1].err = ErrIncomplete /\ arrivals[2].err = ErrRegistry
    /\ retErr = ErrResolving(ErrRegistry)

\* C7: when the peer task's resolve call returned no error and left a ref
\* with an empty field, the result the coordinator receives from that task
\* carries the incomplete-reference error, and the task is not the winner.
C7_IncompleteP2PIsError ==
    (p2pPc \in {"check", "send", "done"} /\ p2pRet = Nil /\ ~AllPopulated(p2pRetRef))
        => /\ \A k \in 1 .. Len(arrivals) :
                 arrivals[k].src = "p2p" => arrivals[k].err = ErrIncomplete
           /\ ~(Returned /\ retErr = Nil /\ arrivals # <<>>
                  /\ Last(arrivals).src = "p2p")

C7_Witness ==
    /\ p2pRet = Nil /\ ~AllPopulated(p2pRetRef) /\ p2pRetRef.Path # ""
    /\ Len(arrivals) = 1 /\ arrivals[1].src = "p2p"
    /\ arrivals[1].err = ErrIncomplete
    /\ regPc = "run"

\* C8: whenever the call has returned with no error, by the local, the
\* registry or the peer path, all four fields of *ref are populated.
C8_SuccessMeansComplete ==
    (Returned /\ retErr = Nil) => AllPopulated(ref)

----------------------------------------------------------------------------
(* properties of the list_events exchange *)

\* C9: a call of RequestEventsList that waits for its reply eventually
\* returns, whether a reply arrives or not (checked under FairSpecEvents).
C9_WaitIsBounded ==
    \A c \in Calls : (callPc[c] = "awaiting") ~> (callPc[c] = "returned")

\* C10: handleEvents queries the local event store with listMax when the
\* request's limit is zero or above listMax, and with the request's own
\* limit when that is in 1 .. listMax (checked under SpecEvents).
C10_LimitClamped ==
    (query.by = "handler")
        => /\ (query.asked = 0 \/ query.asked > listMax) => query.limit = listMax
           /\ (query.asked \in 1 .. listMax) => query.limit = query.asked

C10_Witness ==
    query.by = "handler" /\ query.asked = 0 /\ query.limit = listMax

\* the step just taken ran handleEvents at the responder on a request
HandledRequest == handled.at = "responder" /\ handled.msg.phase = "request"

\* C11: a request-phase message whose body does not decode gets no reply:
\* handleEvents asks the store nothing, hands nothing to ws.sendMessage and
\* hangs up, so the stream closes with nothing sent on it (SpecEvents).
C11_UndecodableRequestDropped ==
    (HandledRequest /\ handled.msg.body.kind # "params")
        => /\ handled.reply = NoMsg
           /\ handled.hangup
           /\ query = NoQuery
           /\ wire[handled.call] = ClosedWire
           /\ sentCount[handled.call] = 0

C11_Witness ==
    /\ HandledRequest /\ handled.msg.body = GarbageBody
    /\ handled.reply = NoMsg /\ wire[handled.call] = ClosedWire

\* C12: for a request-phase message that decodes and whose event lookup
\* succeeds, handleEvents hands ws.sendMessage exactly one message, on the
\* stream the request came on, with phase "response" and the request's
\* message type; when the send goes out it is the message in flight back to
\* the requester (SpecEvents).
C12_ReplyMatchesRequest ==
    (HandledRequest /\ handled.msg.body.kind = "params" /\ handled.storeOk)
        => /\ handled.reply # NoMsg
           /\ handled.reply.phase = "response"
           /\ handled.reply.type = handled.msg.type
           /\ sentCount[handled.call] = 1
           /\ handled.hangup
           /\ wire[handled.call] =
                IF handled.delivered THEN Wire("toRequester", handled.reply)
                                     ELSE ClosedWire

C12_Witness ==
    /\ HandledRequest /\ handled.msg.body.kind = "params" /\ handled.storeOk
    /\ handled.delivered
    /\ wire[handled.call].dir = "toRequester"
    /\ wire[handled.call].msg.phase = "response"
    /\ wire[handled.call].msg.type = MtEvents

\* the outcomes of an exchange as RequestEventsList returns them
Received(c) == callPc[c] = "returned" /\ callOut[c].from # 0
ChannelError(c) == callPc[c] = "returned" /\ callOut[c].err \in {"marshal", "send"}
TimedOut(c) == callPc[c] = "returned" /\ callOut[c].err = "timeout"
SelfCall(c) == callPc[c] = "returned" /\ wire[c] = NoWire /\ ~ChannelError(c)

\* a returned exchange is in one terminal state only, and took its own reply
C13_OneTerminalState ==
    \A c \in Calls :
        (callPc[c] = "returned" /\ ~SelfCall(c))
            => /\ Received(c) \/ TimedOut(c) \/ ChannelError(c)
               /\ ~(Received(c) /\ ChannelError(c))
               /\ ~(Received(c) /\ TimedOut(c))
               /\ ~(TimedOut(c) /\ ChannelError(c))
               /\ Received(c) => wire[c] = ClosedWire /\ callOut[c].from = c

\* a returned call and a closed stream stay as they are: nothing arriving
\* later changes the result or reopens the exchange
C13_ClosedIsFinal ==
    \A c \in Calls :
        /\ (callPc[c] = "returned")
              => (callPc'[c] = "returned" /\ callOut'[c] = callOut[c])
        /\ (wire[c] = ClosedWire)
              => (wire'[c] = ClosedWire /\ sentCount'[c] = sentCount[c])

\* C13: every exchange ends in exactly one of Received, TimedOut or
\* ChannelError and then is closed; one reply at most is taken per request,
\* and nothing changes the result of a closed exchange (FairSpecEvents).
C13_ExchangeEndsOnce ==
    /\ []C13_OneTerminalState
    /\ [][C13_ClosedIsFinal]_vars
    /\ \A c \in Calls :
          (callPc[c] = "awaiting")
              ~> (Received(c) \/ TimedOut(c) \/ ChannelError(c))

\* C14: among connected peers that each hold events, every concurrent call
\* of RequestEventsList returns with no error and an event list; a call
\* takes the reply of its own exchange only, and no call is kept waiting
\* by another (SpecConnected).
C14_ConcurrentCallsSucceed ==
    /\ [](\A c \in Calls :
            (callPc[c] = "returned")
                => /\ callOut[c].err = ""
                   /\ callOut[c].events = "list"
                   /\ callOut[c].from = c)
    /\ \A c \in Calls : (callPc[c] = "awaiting") ~> (callPc[c] = "returned")

C14_Witness ==
    \A c \in Calls :
        /\ callPc[c] = "returned" /\ callOut[c].from = c
        /\ callOut[c].err = "" /\ callOut[c].events = "list"

----------------------------------------------------------------------------
(* properties of the operation log, checked under SpecLog *)

MergeMade == logRes.op = "Merge"
RemoteVerifies == VerifyErr(logRes.remote, logRes.before.owner) = LogOk
LocalUntouched == log = logRes.before

\* the local opset is a proper prefix of the remote's
LocalIsStrictPrefix ==
    /\ Len(logRes.remote.opset) > Len(logRes.before.opset)
    /\ SubSeq(logRes.remote.opset, 1, Len(logRes.before.opset))
          = logRes.before.opset

\* local and remote differ at a position both hold
OpsetsDiffer ==
    \E i \in 1 .. Len(logRes.before.opset) :
        /\ i <= Len(logRes.remote.opset)
        /\ logRes.before.opset[i] # logRes.remote.opset[i]

\* C15: in the log every operation after the first names its predecessor's
\* identifier as prev, and an Append whose op.prev is not the identifier of
\* the log's last operation fails with CausalConflict and leaves the opset
\* as it was.
C15_HashChainKept ==
    /\ \A i \in 2 .. Len(log.opset) :
          log.opset[i].prev = Identifier(log.opset[i - 1])
    /\ (/\ logRes.op = "Append"
        /\ logRes.appended.prev # HeadId(logRes.before.opset))
          => (logRes.err = CausalConflict /\ log.opset = logRes.before.opset)

C15_Witness ==
    /\ logRes.op = "Append" /\ logRes.err = CausalConflict
    /\ Len(log.opset) = 2 /\ log.opset[2].prev = Identifier(log.opset[1])
    /\ logRes.appended.prev = Identifier(log.opset[1])

\* C16: a Merge of a remote log that is unsigned or does not verify fails
\* with SignatureInvalid and leaves the local log as it was, whether the
\* remote opset is the local one, extends it or diverges from it.
C16_UnverifiedNeverMerged ==
    (MergeMade /\ (logRes.remote.signature = NoSig \/ ~RemoteVerifies))
        => (logRes.err = SignatureInvalid /\ LocalUntouched)

C16_Witness ==
    /\ MergeMade /\ logRes.remote.signature # NoSig /\ ~RemoteVerifies
    /\ LocalIsStrictPrefix /\ logRes.before.opset # <<>>
    /\ BrokenLinks(logRes.remote.opset) = {}
    /\ logRes.err = SignatureInvalid /\ LocalUntouched

\* C17 as stated: whenever local and remote differ at a position both hold,
\* Merge fails with CausalConflict and the local log is as before.
C17_AsStated ==
    (MergeMade /\ OpsetsDiffer)
        => (logRes.err = CausalConflict /\ LocalUntouched)

\* C17: when the remote log verifies and local and remote differ at a
\* position both hold, Merge fails with CausalConflict and the local log is
\* as before.
C17_VerifiedConflictKeepsLocal ==
    (MergeMade /\ RemoteVerifies /\ OpsetsDiffer)
        => (logRes.err = CausalConflict /\ LocalUntouched)

C17_Witness ==
    /\ MergeMade /\ RemoteVerifies
    /\ logRes.before.opset = <<Operation("a", NoId), Operation("b", "a")>>
    /\ logRes.remote.opset = <<Operation("a", NoId), Operation("c", "a")>>
    /\ logRes.err = CausalConflict /\ LocalUntouched

\* C18: when the remote log verifies, holds the whole local opset as a
\* proper prefix and its further operations continue the prev chain, Merge
\* succeeds and the local opset becomes the remote opset.
C18_FastForward ==
    (/\ MergeMade /\ RemoteVerifies /\ LocalIsStrictPrefix
     /\ \A i \in (Len(logRes.before.opset) + 1) .. Len(logRes.remote.opset) :
          logRes.remote.opset[i].prev =
              IF i = 1 THEN NoId ELSE Identifier(logRes.remote.opset[i - 1]))
        => (logRes.err = LogOk /\ log.opset = logRes.remote.opset)

C18_Witness ==
    /\ MergeMade /\ logRes.err = LogOk
    /\ logRes.before.opset = <<Operation("a", NoId), Operation("b", "a")>>
    /\ log.opset = <<Operation("a", NoId), Operation("b", "a"),
                     Operation("c", "b")>>

\* C19: merging a verified remote log whose opset is the local one returns
\* no error and changes nothing in the local log; after a fast-forward,
\* merging the same remote once more does the same.
C19_MergeIdempotent ==
    /\ (MergeMade /\ RemoteVerifies
            /\ logRes.remote.opset = logRes.before.opset)
          => (logRes.err = LogOk /\ LocalUntouched)
    /\ (MergeMade /\ RemoteVerifies /\ LocalIsStrictPrefix
            /\ logRes.err = LogOk)
          => MergeResult(log, logRes.remote) = [log |-> log, err |-> LogOk]

C19_Witness ==
    /\ MergeMade /\ RemoteVerifies
    /\ logRes.remote.opset = logRes.before.opset
    /\ Len(logRes.before.opset) = 2
    /\ logRes.before.signature # logRes.remote.signature
    /\ logRes.err = LogOk /\ LocalUntouched

----------------------------------------------------------------------------
(* properties of the setup command, checked under SpecSetup *)

\* C20: when config.yaml exists at the repo path and neither --overwrite
\* nor --remove is set, Run returns "repo already initialized", runs neither
\* DoSetup nor Teardown, and the configuration on disk is the one that was
\* there.
C20_InitializedRepoKept ==
    (run.called /\ run.before # 0 /\ ~run.overwrite /\ ~run.remove)
        => /\ run.err = ErrAlreadyInitialized
           /\ ~run.didSetup /\ ~run.didTeardown
           /\ config = run.before

C20_Witness ==
    /\ run.called /\ run.before # 0 /\ ~run.overwrite /\ ~run.remove
    /\ run.stat = "ok" /\ run.err = ErrAlreadyInitialized
    /\ config = run.before /\ made = 2

----------------------------------------------------------------------------
(* further properties of ResolveDatasetRef, checked under Spec or FairSpec *)

\* the call went past local resolution and started its tasks
TasksLaunched == pc = "recv" \/ (Returned /\ (tasks > 0 \/ retErr = ErrNoPath))
RegistryLaunched == regPc # "idle"
P2PLaunched == p2pPc # "idle"
Delivered(src) == {i \in 1 .. Len(arrivals) : arrivals[i].src = src}

\* results received never exceed the tasks launched; the call goes on
\* receiving only while every result so far failed and some are left, and a
\* call that returned from the loop got a success or its last failure
C21_ReceiveBound ==
    /\ recvd <= tasks /\ Len(arrivals) = recvd
    /\ (pc = "recv")
          => /\ recvd < tasks
             /\ \A i \in 1 .. Len(arrivals) : arrivals[i].err # Nil
    /\ (Returned /\ tasks > 0)
          => /\ recvd >= 1
             /\ \A i \in 1 .. (recvd - 1) : arrivals[i].err # Nil
             /\ Last(arrivals).err = Nil \/ recvd = tasks

\* C21: ResolveDatasetRef receives at most as many results as it launched
\* tasks and returns at the first success or at the last failure; when
\* every task delivers its result the call returns (FairSpec).
C21_ReceivesUpToTasks ==
    /\ []C21_ReceiveBound
    /\ (pc = "recv") ~> Returned

C21_Witness ==
    /\ Returned /\ tasks = 2 /\ recvd = 2
    /\ arrivals[1].err # Nil /\ arrivals[2].err # Nil
    /\ retErr = ErrResolving(arrivals[2].err)

\* one task per available source, and no task delivers twice
C22_TaskPerSource ==
    TasksLaunched
        => /\ RegistryLaunched <=> RegistryGiven
           /\ P2PLaunched <=> online
           /\ tasks = (IF RegistryGiven THEN 1 ELSE 0) + (IF online THEN 1 ELSE 0)
           /\ Cardinality(Delivered("registry")) <= (IF RegistryLaunched THEN 1 ELSE 0)
           /\ Cardinality(Delivered("p2p")) <= (IF P2PLaunched THEN 1 ELSE 0)

\* C22: when local resolution does not return early, one task is launched
\* per available source (a registry task iff a client and an address are
\* given, a peer task iff the node is online), and every launched task
\* delivers exactly one result on the queue (FairSpec).
C22_OneTaskOneResult ==
    /\ []C22_TaskPerSource
    /\ RegistryLaunched ~> (Cardinality(Delivered("registry")) = 1)
    /\ P2PLaunched ~> (Cardinality(Delivered("p2p")) = 1)

\* C25: every launched task terminates, the loser too: none is left
\* blocked on its send after ResolveDatasetRef has returned (FairSpec).
C25_TasksTerminate ==
    /\ RegistryLaunched ~> (regPc = "done")
    /\ P2PLaunched ~> (p2pPc = "done")
    /\ ~<>[](Returned /\ (regPc = "send" \/ p2pPc = "send"))

\* C26: once the call has returned success with the registry's result the
\* caller's ref is that result and stays so: the peer task does not write
\* to it (Spec).
C26_RegistryWin ==
    Returned /\ retErr = Nil /\ ~retLocal /\ Last(arrivals).src = "registry"

C26_WinnerRefKept ==
    /\ [](C26_RegistryWin => ref = Last(arrivals).ref)
    /\ [][C26_RegistryWin => ref' = ref]_vars

\* C27: when the call returns an error after launching tasks, the caller's
\* ref has the field values it had when the tasks were launched (Spec).
C27_FailureLeavesRef ==
    (Returned /\ retErr # Nil /\ tasks > 0) => ref = canonRef

----------------------------------------------------------------------------
(* further properties of the list_events exchange, checked under SpecEvents *)

\* C23: a call of RequestEventsList for the node's own id sends nothing and
\* waits for no reply: it returns what the local store gives for the limit
\* and offset it was called with.
C23_SelfRequestStaysLocal ==
    (query.target = "self")
        => /\ query.by = "self" /\ query.limit = query.asked
           /\ callPc[query.call] = "returned"
           /\ callOut[query.call].err \in {"", "repo"}
           /\ callOut[query.call].from = 0
           /\ wire[query.call] = NoWire
           /\ sentCount[query.call] = 0
           /\ replies[RepliesOf(query.call)] = <<>>
           /\ handled = NoHandled

C23_Witness ==
    /\ query.target = "self" /\ query.by = "self" /\ query.asked = 0
    /\ callOut[query.call].events = "list" /\ wire[query.call] = NoWire

\* C28: handleEvents sends only when the message's phase is request; for a
\* response, a missing or an unknown phase it sends nothing and asks the
\* store nothing, so no stream ever carries a reply to a reply; it returns
\* hangup = true for every message.
C28_OnlyRequestsAnswered ==
    /\ (handled.at # "none")
          => /\ handled.hangup
             /\ (handled.msg.phase # "request")
                   => (handled.reply = NoMsg /\ query = NoQuery
                       /\ wire[handled.call] = ClosedWire)
    /\ \A c \in Calls : sentCount[c] <= 1

C28_Witness ==
    /\ handled.at = "requester" /\ handled.msg.phase = "response"
    /\ handled.msg.body = EventsBody
    /\ handled.reply = NoMsg /\ handled.hangup
    /\ sentCount[handled.call] = 1

\* C29: whatever limit a request carries, a negative one included, the
\* limit handleEvents passes to the local event store is in 1 .. listMax.
C29_StoreLimitInRange ==
    (query.by = "handler") => query.limit \in 1 .. listMax

----------------------------------------------------------------------------
(* properties of fsi.InitDataset, checked under SpecFsi *)

\* C24: with a non-empty Mkdir, a target directory that exists already and
\* is not linked is no error: the call gets past making the directory.
C24_ExistingDirAccepted ==
    (/\ initRes.called /\ initRes.dirGiven /\ initRes.mkdir
     /\ initRes.before.dir = "dir" /\ initRes.before.sub
     /\ QriRefFilename \notin initRes.before.subFiles)
        => initRes.err # ErrMkdirExists

\* C30: a call of InitDataset that returns an error leaves the disk as it
\* was: no link file, no meta.json, no body file, no new directory.
C30_ErrorLeavesDirectory ==
    (initRes.called /\ initRes.err # Nil) => tree = initRes.before

====
